---- MODULE Spec2Model ----
(***************************************************************************)
(* State-machine model of src/app.py (Digital Result Processor): the three *)
(* SQLite tables students / subjects / marks, the data operations          *)
(* add_student, add_subject, add_marks, the Admin reset handler, and the   *)
(* read-only report pipeline grade_from_percent -> compute_student_report  *)
(* -> class CGPA table.                                                    *)
(*                                                                         *)
(* Numbers.  marks, max_marks and credits are REAL columns; the model uses *)
(* whole-number values of them.  A percent is kept as an exact fraction    *)
(* num/den (den > 0) or one of the IEEE specials the float division        *)
(* produces for max_marks = 0.  A cgpa is kept in hundredths.              *)
(***************************************************************************)
EXTENDS Integers, Sequences, FiniteSets, TLC

\* ------------------------------------------------------------------ bounds
\* Capacity of the marks table explored by the model (rows).
MaxMarkRows == 2
\* How far below 0 and above 100 the whole-number percents given to
\* grade_from_percent reach.
MaxOver == 20

\* ------------------------------------------------------------- input sets
RollList == <<"R1", "R2">>          \* in text (ORDER BY roll) order
Rolls == {RollList[i] : i \in 1..Len(RollList)}
Names == {"Asha", "Ravi"}
Programs == {"BSc"}
CodeList == <<"C1", "C2">>
Codes == {CodeList[i] : i \in 1..Len(CodeList)}
Titles == {"Maths", "Physics"}
CreditVals == {0, 3, 4, 5}
MarkInputs == {[marks |-> 95, max_marks |-> 100],
               [marks |-> 65, max_marks |-> 100],
               [marks |-> 50, max_marks |-> 0]}
StudentIds == 1..(Len(RollList) + 1)   \* ids handed to compute_student_report

\* fetchone() found no row; AUTOINCREMENT keys start at 1.
NoRow == 0
\* A return value of None.
None == [none |-> TRUE]

VARIABLES
    students,         \* table students: rows [student_id, roll, name, program]
    subjects,         \* table subjects: rows [subject_id, code, title, credits]
    marks,            \* table marks: rows [mark_id, student_id, subject_id, marks, max_marks]
    sqlite_sequence,  \* AUTOINCREMENT counters, one per table
    upserted,         \* history: per (roll, code), the values of the last saved add_marks
    last              \* the most recent call: [op, args, outcome], args being
                      \* the arguments that identify the call; a saved
                      \* add_marks also records the values it replaced

vars == <<students, subjects, marks, sqlite_sequence, upserted, last>>

\* ------------------------------------------------------------------ init_db
\* CREATE TABLE IF NOT EXISTS x3 on a database without tables: three empty
\* tables and no AUTOINCREMENT counter yet.
EmptySequence == [students |-> 0, subjects |-> 0, marks |-> 0]

init_db ==
    /\ students = {}
    /\ subjects = {}
    /\ marks = {}
    /\ sqlite_sequence = EmptySequence

NoUpserts == [k \in Rolls \X Codes |-> None]

Init ==
    /\ init_db
    /\ upserted = NoUpserts
    /\ last = [op |-> "init_db", args |-> <<>>, outcome |-> "ok"]

\* ------------------------------------------------------------ add_student
\* The UNIQUE constraint on students.roll.
roll_taken(roll) == \E s \in students : s.roll = roll

\* Variant: INSERT OR REPLACE, which overwrites the row that holds the roll.
insert_or_replace_student(roll, name, program) ==
    [raised |-> FALSE,
     rows |-> {s \in students : s.roll # roll}
              \cup {[student_id |-> sqlite_sequence.students + 1,
                     roll |-> roll, name |-> name, program |-> program]}]

\* INSERT INTO students (roll, name, program): whether the statement raises
\* sqlite3.IntegrityError, and the table after it.
insert_student(roll, name, program) ==
    IF roll_taken(roll)
    THEN [raised |-> TRUE, rows |-> students]
    ELSE [raised |-> FALSE,
          rows |-> students \cup {[student_id |-> sqlite_sequence.students + 1,
                         roll |-> roll, name |-> name, program |-> program]}]

add_student(roll, name, program) ==
    LET after == insert_student(roll, name, program) IN
    /\ IF after.raised
       THEN /\ UNCHANGED <<students, sqlite_sequence>>
            /\ last' = [op |-> "add_student", args |-> <<roll, name>>,
                        outcome |-> "IntegrityError"]
       ELSE /\ students' = after.rows
            /\ sqlite_sequence' = [sqlite_sequence EXCEPT !.students = @ + 1]
            /\ last' = [op |-> "add_student", args |-> <<roll, name>>,
                        outcome |-> "Student added"]
    /\ UNCHANGED <<subjects, marks, upserted>>

\* ------------------------------------------------------------ add_subject
code_taken(code) == \E s \in subjects : s.code = code

insert_subject(code, title, credits) ==
    IF code_taken(code)
    THEN [raised |-> TRUE, rows |-> subjects]
    ELSE [raised |-> FALSE,
          rows |-> subjects \cup {[subject_id |-> sqlite_sequence.subjects + 1,
                         code |-> code, title |-> title, credits |-> credits]}]

add_subject(code, title, credits) ==
    LET after == insert_subject(code, title, credits) IN
    /\ IF after.raised
       THEN /\ UNCHANGED <<subjects, sqlite_sequence>>
            /\ last' = [op |-> "add_subject", args |-> <<code, title>>,
                        outcome |-> "IntegrityError"]
       ELSE /\ subjects' = after.rows
            /\ sqlite_sequence' = [sqlite_sequence EXCEPT !.subjects = @ + 1]
            /\ last' = [op |-> "add_subject", args |-> <<code, title>>,
                        outcome |-> "Subject added"]
    /\ UNCHANGED <<students, marks, upserted>>

\* -------------------------------------------------------------- add_marks
\* SELECT student_id FROM students WHERE roll = ?  ... fetchone()
select_student_id(roll) ==
    LET hit == {s \in students : s.roll = roll} IN
    IF hit = {} THEN NoRow ELSE (CHOOSE s \in hit : TRUE).student_id

\* Variant: the WHERE clause is missing, so any subject row answers.
select_any_subject_id(code) ==
    IF subjects = {} THEN NoRow ELSE (CHOOSE s \in subjects : TRUE).subject_id

\* SELECT subject_id FROM subjects WHERE code = ?  ... fetchone()
select_subject_id(code) ==
    LET hit == {s \in subjects : s.code = code} IN
    IF hit = {} THEN NoRow ELSE (CHOOSE s \in hit : TRUE).subject_id

\* Variant: the lookup of an existing mark finds nothing, so every save inserts.
select_no_mark_id(student_id, subject_id) == NoRow

\* SELECT mark_id FROM marks WHERE student_id = ? AND subject_id = ? ... fetchone():
\* the first matching row in rowid order.
select_mark_id(student_id, subject_id) ==
    LET hit == {m \in marks : m.student_id = student_id /\ m.subject_id = subject_id} IN
    IF hit = {} THEN NoRow
    ELSE (CHOOSE m \in hit : \A o \in hit : m.mark_id <= o.mark_id).mark_id

\* UPDATE marks SET marks=?, max_marks=? WHERE mark_id=?
update_mark(mark_id, mk, mx) ==
    {IF m.mark_id = mark_id THEN [m EXCEPT !.marks = mk, !.max_marks = mx] ELSE m
        : m \in marks}

\* INSERT INTO marks (student_id, subject_id, marks, max_marks)
insert_mark(student_id, subject_id, mk, mx) ==
    marks \cup {[mark_id |-> sqlite_sequence.marks + 1, student_id |-> student_id,
                 subject_id |-> subject_id, marks |-> mk, max_marks |-> mx]}

\* The marks and max_marks of the row an UPDATE overwrites; None for an INSERT.
replaced_by(mark_id) ==
    IF mark_id = NoRow THEN None
    ELSE LET m == CHOOSE x \in marks : x.mark_id = mark_id IN
         [marks |-> m.marks, max_marks |-> m.max_marks]

add_marks(roll, subject_code, mk, mx) ==
    LET student_id == select_student_id(roll)
        subject_id == select_subject_id(subject_code)
        existing == select_mark_id(student_id, subject_id)
        args == <<roll, subject_code, mk, mx>>
    IN
    IF student_id = NoRow
    THEN /\ last' = [op |-> "add_marks", args |-> <<roll, subject_code>>,
                     outcome |-> "Student roll not found."]
         /\ UNCHANGED <<students, subjects, marks, sqlite_sequence, upserted>>
    ELSE IF subject_id = NoRow
    THEN /\ last' = [op |-> "add_marks", args |-> <<roll, subject_code>>,
                     outcome |-> "Subject code not found."]
         /\ UNCHANGED <<students, subjects, marks, sqlite_sequence, upserted>>
    ELSE /\ existing = NoRow => Cardinality(marks) < MaxMarkRows
         /\ IF existing # NoRow
            THEN /\ marks' = update_mark(existing, mk, mx)
                 /\ UNCHANGED sqlite_sequence
            ELSE /\ marks' = insert_mark(student_id, subject_id, mk, mx)
                 /\ sqlite_sequence' = [sqlite_sequence EXCEPT !.marks = @ + 1]
         /\ upserted' = [upserted EXCEPT ![<<roll, subject_code>>] =
                            [marks |-> mk, max_marks |-> mx]]
         /\ last' = [op |-> "add_marks", args |-> args, outcome |-> "Marks saved",
                     replaced |-> replaced_by(existing)]
         /\ UNCHANGED <<students, subjects>>

\* ------------------------------------------------------------ Admin reset
\* Variant: the marks table is not dropped.
drop_students_and_subjects ==
    /\ marks' = marks
    /\ subjects' = {}
    /\ students' = {}
    /\ sqlite_sequence' = [EmptySequence EXCEPT !.marks = sqlite_sequence.marks]

\* DROP TABLE IF EXISTS marks / subjects / students, commit, then init_db():
\* dropping a table also drops its AUTOINCREMENT counter.
drop_tables ==
    /\ marks' = {}
    /\ subjects' = {}
    /\ students' = {}
    /\ sqlite_sequence' = EmptySequence

\* What the expression st.confirm("Are you sure? ...") can produce.  Streamlit
\* has no attribute `confirm`, so the lookup raises AttributeError; the two
\* boolean answers are what a confirmation dialog would return.
ConfirmOutcomes == {"AttributeError", "True", "False"}

reset(confirm) ==
    /\ IF confirm = "True"
       THEN /\ drop_tables
            /\ upserted' = NoUpserts
            /\ last' = [op |-> "reset", args |-> <<>>, outcome |-> "Database reset."]
       ELSE /\ UNCHANGED <<students, subjects, marks, sqlite_sequence, upserted>>
            /\ last' = [op |-> "reset", args |-> <<>>, outcome |-> confirm]

\* ----------------------------------------------------- grade_from_percent
\* A percent: a finite fraction num/den with den > 0, or an IEEE special.
Finite(num, den) == [kind |-> "finite", num |-> num, den |-> den]
PosInf == [kind |-> "inf", num |-> 1, den |-> 1]
NegInf == [kind |-> "-inf", num |-> -1, den |-> 1]
NaN == [kind |-> "nan", num |-> 0, den |-> 1]

\* Variant: the comparison is strict (p > t).
gt(p, t) ==
    CASE p.kind = "finite" -> p.num > t * p.den
      [] p.kind = "inf" -> TRUE
      [] OTHER -> FALSE

\* p >= t for a float p and a whole number t; every comparison with NaN is False.
ge(p, t) ==
    CASE p.kind = "finite" -> p.num >= t * p.den
      [] p.kind = "inf" -> TRUE
      [] OTHER -> FALSE

grade_from_percent(p) ==
    IF ge(p, 90) THEN <<"A+", 10>>
    ELSE IF ge(p, 80) THEN <<"A", 9>>
    ELSE IF ge(p, 70) THEN <<"B+", 8>>
    ELSE IF ge(p, 60) THEN <<"B", 7>>
    ELSE IF ge(p, 50) THEN <<"C", 6>>
    ELSE IF ge(p, 40) THEN <<"D", 5>>
    ELSE <<"F", 0>>

\* Whole-number percents around the scale, the percents one thousandth either
\* side of each band threshold, and the three IEEE specials.
Thresholds == {40, 50, 60, 70, 80, 90}
GradeInputs ==
    {Finite(n, 1) : n \in (0 - MaxOver)..(100 + MaxOver)}
    \cup {Finite(1000 * t + d, 1000) : t \in Thresholds, d \in {-1, 1}}
    \cup {PosInf, NegInf, NaN}

\* A call grade_from_percent(p) on an otherwise untouched store.
apply_grade ==
    /\ last.op = "percent"
    /\ last' = [op |-> "grade_from_percent", args |-> last.args,
                outcome |-> grade_from_percent(last.args[1])]
    /\ UNCHANGED <<students, subjects, marks, sqlite_sequence, upserted>>

InitGrade ==
    /\ init_db
    /\ upserted = NoUpserts
    /\ \E p \in GradeInputs : last = [op |-> "percent", args |-> <<p>>, outcome |-> None]

NextGrade == apply_grade

SpecGrade == InitGrade /\ [][NextGrade]_vars

\* ------------------------------------------------- compute_student_report
\* df['percent'] = (df['marks'] / df['max_marks']) * 100 on float64 columns:
\* division by zero does not raise, it yields inf, -inf or NaN.  For finite
\* results the exact fraction stands for the float: a quotient of whole
\* numbers that is not on a band threshold is further from it than the
\* float error, and one that is on a threshold is computed exactly.
percent(mk, mx) ==
    IF mx = 0
    THEN (IF mk > 0 THEN PosInf ELSE IF mk < 0 THEN NegInf ELSE NaN)
    ELSE IF mx > 0 THEN Finite(mk * 100, mx) ELSE Finite(-(mk * 100), -mx)

\* df['credit_gp'] = df['credits'] * df['grade_point']
credit_gp(credits, grade_point) == credits * grade_point

\* The SELECT ... FROM students s JOIN marks m JOIN subjects sub WHERE
\* s.student_id = ?, with the percent, grade, grade_point and credit_gp
\* columns added.  mark_id keeps the rows of the frame apart.
report_rows(student_id) ==
    {[mark_id |-> m.mark_id, roll |-> s.roll, name |-> s.name, code |-> sub.code,
      title |-> sub.title, credits |-> sub.credits, marks |-> m.marks,
      max_marks |-> m.max_marks, percent |-> percent(m.marks, m.max_marks),
      grade |-> grade_from_percent(percent(m.marks, m.max_marks))[1],
      grade_point |-> grade_from_percent(percent(m.marks, m.max_marks))[2],
      credit_gp |-> credit_gp(sub.credits,
                              grade_from_percent(percent(m.marks, m.max_marks))[2])]
        : <<s, m, sub>> \in
            {t \in students \X marks \X subjects :
                /\ t[1].student_id = student_id
                /\ t[1].student_id = t[2].student_id
                /\ t[2].subject_id = t[3].subject_id}}

\* df['credits'].sum()
RECURSIVE sum_credits(_)
sum_credits(df) ==
    IF df = {} THEN 0
    ELSE LET r == CHOOSE x \in df : TRUE IN r.credits + sum_credits(df \ {r})

\* df['credit_gp'].sum()
RECURSIVE sum_credit_gp(_)
sum_credit_gp(df) ==
    IF df = {} THEN 0
    ELSE LET r == CHOOSE x \in df : TRUE IN r.credit_gp + sum_credit_gp(df \ {r})

\* Variant: the quotient is cut off after two decimals instead of rounded.
truncate2(n, d) == (100 * n) \div d

\* round(n / d, 2) in hundredths, for n >= 0 and d > 0.  The quotient of the
\* two float sums is rounded to the nearest hundredth; it lies exactly
\* half-way between two hundredths only when 200n/d is an odd whole number,
\* and for d < 40 such a quotient is a multiple of 1/8, which float64 holds
\* exactly, so the half-way case rounds to the even hundredth.
round2(n, d) ==
    LET q == (100 * n) \div d
        r == (100 * n) % d
    IN IF 2 * r < d THEN q
       ELSE IF 2 * r > d THEN q + 1
       ELSE IF q % 2 = 0 THEN q ELSE q + 1

\* cgpa = (total_credit_gp / total_credits) if total_credits > 0 else 0.0, then
\* round(cgpa, 2); in hundredths.
cgpa_of(total_credit_gp, total_credits) ==
    IF total_credits > 0 THEN round2(total_credit_gp, total_credits) ELSE 0

\* The summary dict without generated_at (the wall clock is not modelled).
summary_of(df) ==
    LET first == CHOOSE r \in df : TRUE IN
    [roll |-> first.roll, name |-> first.name,
     total_credits |-> sum_credits(df),
     total_credit_gp |-> sum_credit_gp(df),
     cgpa |-> cgpa_of(sum_credit_gp(df), sum_credits(df))]

compute_student_report(student_id) ==
    LET df == report_rows(student_id) IN
    IF df = {} THEN None ELSE [df |-> df, summary |-> summary_of(df)]

\* The Student Report page / a direct call: the result is what the caller sees.
student_report(student_id) ==
    /\ last' = [op |-> "compute_student_report", args |-> <<student_id>>,
                outcome |-> compute_student_report(student_id)]
    /\ UNCHANGED <<students, subjects, marks, sqlite_sequence, upserted>>

\* ----------------------------------- Dashboard: Compute CGPA for all students
\* get_all_students_df(): SELECT ... FROM students ORDER BY roll.
get_all_students_df ==
    LET present == SelectSeq(RollList, LAMBDA r : roll_taken(r)) IN
    [i \in 1..Len(present) |-> CHOOSE s \in students : s.roll = present[i]]

\* The list `out`: one entry per student whose report is not None, in the
\* order of get_all_students_df().
RECURSIVE collect_out(_)
collect_out(rows) ==
    IF rows = <<>> THEN <<>>
    ELSE LET result == compute_student_report(Head(rows).student_id)
             rest == collect_out(Tail(rows))
         IN IF result = None THEN rest
            ELSE <<[roll |-> result.summary.roll, name |-> result.summary.name,
                    cgpa |-> result.summary.cgpa,
                    total_credits |-> result.summary.total_credits]>> \o rest

\* pd.DataFrame(out).sort_values(["cgpa"], ascending=False): the default
\* kind="quicksort" is not a stable sort, so rows of equal cgpa may come out
\* in any order; every arrangement in descending cgpa is a possible result.
sort_values_cgpa_desc(out) ==
    LET n == Len(out)
        perms == {f \in [1..n -> 1..n] : \A i, j \in 1..n : i # j => f[i] # f[j]}
    IN {[i \in 1..n |-> out[f[i]]] : f \in
            {g \in perms : \A i \in 1..n, j \in 1..n :
                i < j => out[g[i]].cgpa >= out[g[j]].cgpa}}

class_cgpa ==
    LET out == collect_out(get_all_students_df) IN
    /\ IF out # <<>>
       THEN \E shown \in sort_values_cgpa_desc(out) :
                last' = [op |-> "class_cgpa", args |-> <<>>, outcome |-> shown]
       ELSE last' = [op |-> "class_cgpa", args |-> <<>>, outcome |-> <<>>]
    /\ UNCHANGED <<students, subjects, marks, sqlite_sequence, upserted>>

\* -------------------------------------------------------------------- Next
\* The data operations, with their inputs drawn from the given sets.
StoreOver(names, titles, credit_vals, mark_inputs) ==
    \/ \E roll \in Rolls, name \in names, program \in Programs :
            add_student(roll, name, program)
    \/ \E code \in Codes, title \in titles, credits \in credit_vals :
            add_subject(code, title, credits)
    \/ \E roll \in Rolls, code \in Codes, mi \in mark_inputs :
            add_marks(roll, code, mi.marks, mi.max_marks)
    \/ \E confirm \in ConfirmOutcomes : reset(confirm)

\* The record store: every name and title, one credit value, a valid and a
\* zero max_marks.
Next == StoreOver(Names, Titles, {3}, {mi \in MarkInputs : mi.marks \in {50, 65}})

Spec == Init /\ [][Next]_vars

\* The report pipeline over the record store: one name and title, every
\* credit value, the valid mark inputs.
NextReport ==
    \/ StoreOver({"Asha"}, {"Maths"}, CreditVals, {mi \in MarkInputs : mi.max_marks > 0})
    \/ \E student_id \in StudentIds : student_report(student_id)
    \/ class_cgpa

SpecReport == Init /\ [][NextReport]_vars

\* ======================================================= record store claims
\* The rows of marks that belong to the pair (roll, code).
MarksOf(roll, code) ==
    {m \in marks : /\ m.student_id = select_student_id(roll)
                   /\ m.subject_id = select_subject_id(code)
                   /\ roll_taken(roll) /\ code_taken(code)}

\* C1: for every (student, subject) pair there is at most one Mark row, and a
\* row that exists holds exactly the marks and max_marks of the most recent
\* saved add_marks for that pair (so repeating a call leaves one row).
C1_OneMarkPerPair ==
    /\ \A m1 \in marks, m2 \in marks :
          (m1.student_id = m2.student_id /\ m1.subject_id = m2.subject_id) => m1 = m2
    /\ \A m \in marks, s \in students, sub \in subjects :
          (m.student_id = s.student_id /\ m.subject_id = sub.subject_id)
              => upserted[<<s.roll, sub.code>>] = [marks |-> m.marks, max_marks |-> m.max_marks]
    /\ \A roll \in Rolls, code \in Codes :
          upserted[<<roll, code>>] # None => Cardinality(MarksOf(roll, code)) = 1

\* C1 witness: an add_marks identical to the previous one for the pair has just
\* been saved, and the pair has one row.
C1_RepeatedUpsert ==
    /\ last.op = "add_marks"
    /\ last.outcome = "Marks saved"
    /\ last.replaced = [marks |-> last.args[3], max_marks |-> last.args[4]]
    /\ Cardinality(MarksOf(last.args[1], last.args[2])) = 1
    /\ Cardinality(marks) = 2

\* roll is unique across students and code is unique across subjects.
UniqueKeys ==
    /\ \A s1 \in students, s2 \in students : s1.roll = s2.roll => s1 = s2
    /\ \A s1 \in subjects, s2 \in subjects : s1.code = s2.code => s1 = s2

\* A step that is add_student with a roll already stored, or add_subject with
\* a code already stored.
DuplicateAddStep ==
    \/ last'.op = "add_student" /\ roll_taken(last'.args[1])
    \/ last'.op = "add_subject" /\ code_taken(last'.args[1])

\* C2: add_student with an existing roll, and add_subject with an existing
\* code, is rejected (IntegrityError) and leaves students, subjects and marks
\* unchanged; roll and code stay unique in every reachable state.
C2_DuplicateRejected ==
    /\ []UniqueKeys
    /\ [][DuplicateAddStep =>
            /\ last'.outcome = "IntegrityError"
            /\ UNCHANGED <<students, subjects, marks>>]_vars

\* C2 witness: add_student was just rejected for a roll whose row holds another
\* name than the one offered.
C2_RejectedOtherName ==
    /\ last.op = "add_student"
    /\ last.outcome = "IntegrityError"
    /\ \E s \in students : s.roll = last.args[1] /\ s.name # last.args[2]

\* A step that is add_marks with a roll or a subject code that is not stored.
UnknownKeyMarksStep ==
    /\ last'.op = "add_marks"
    /\ ~roll_taken(last'.args[1]) \/ ~code_taken(last'.args[2])

\* C3: add_marks with a roll that matches no student, or a subject code that
\* matches no subject, reports not found and leaves students, subjects and
\* marks exactly as they were.
C3_NotFoundNoWrite ==
    [][UnknownKeyMarksStep =>
            /\ last'.outcome \in {"Student roll not found.", "Subject code not found."}
            /\ UNCHANGED <<students, subjects, marks>>]_vars

\* C3 witness: add_marks for a stored roll and an unknown subject code was just
\* refused while another subject and a mark are stored.
C3_RefusedUnknownSubject ==
    /\ last.op = "add_marks"
    /\ last.outcome = "Subject code not found."
    /\ roll_taken(last.args[1])
    /\ subjects # {}
    /\ marks # {}

\* C7 (as claimed): no Mark with max_marks <= 0 is ever stored.
C7_MaxMarksPositive == \A m \in marks : m.max_marks > 0

\* C9 (as claimed): after the reset operation has run (and was not declined)
\* students, subjects and marks are all empty.
C9_ResetEmpties ==
    (last.op = "reset" /\ last.outcome # "False")
        => (students = {} /\ subjects = {} /\ marks = {})

\* C10: every Mark row references a Student and a Subject that are in the store.
C10_NoDanglingMark ==
    \A m \in marks :
        /\ \E s \in students : s.student_id = m.student_id
        /\ \E sub \in subjects : sub.subject_id = m.subject_id

\* C10 witness: a second mark row was just inserted into a store that holds
\* two students.
C10_MarkAfterReuse ==
    /\ last.op = "add_marks"
    /\ last.outcome = "Marks saved"
    /\ last.replaced = None
    /\ Cardinality(students) = 2
    /\ Cardinality(marks) = 2

\* ============================================================== grade claims
GradeTable ==
    {<<"A+", 10>>, <<"A", 9>>, <<"B+", 8>>, <<"B", 7>>, <<"C", 6>>, <<"D", 5>>, <<"F", 0>>}

\* The band of the finite percent num/den (den > 0), lower end closed.
BandOf(num, den) ==
    CASE num >= 90 * den -> <<"A+", 10>>
      [] num >= 80 * den /\ num < 90 * den -> <<"A", 9>>
      [] num >= 70 * den /\ num < 80 * den -> <<"B+", 8>>
      [] num >= 60 * den /\ num < 70 * den -> <<"B", 7>>
      [] num >= 50 * den /\ num < 60 * den -> <<"C", 6>>
      [] num >= 40 * den /\ num < 50 * den -> <<"D", 5>>
      [] num < 40 * den -> <<"F", 0>>

\* C4: grade_from_percent is total (negative percents and percents above 100
\* included) and returns the band of the table whose range, closed at its
\* lower end, holds the percent: >=90 A+/10, [80,90) A/9, [70,80) B+/8,
\* [60,70) B/7, [50,60) C/6, [40,50) D/5, <40 F/0.
C4_GradeBands ==
    last.op = "grade_from_percent" =>
        /\ last.outcome \in GradeTable
        /\ last.args[1].kind = "finite"
              => last.outcome = BandOf(last.args[1].num, last.args[1].den)

\* C4 witness: grade_from_percent(90.0) has returned A+ (the lower end of the
\* band belongs to it).
C4_NinetyIsAPlus ==
    /\ last.op = "grade_from_percent"
    /\ last.args[1] = Finite(90, 1)
    /\ last.outcome = <<"A+", 10>>

\* ============================================================= report claims
\* The marks rows of a student and the subject row a mark refers to.
GradedMarks(student_id) == {m \in marks : m.student_id = student_id}
SubjectOf(m) == CHOOSE sub \in subjects : sub.subject_id = m.subject_id

RECURSIVE CreditsSum(_)
CreditsSum(ms) ==
    IF ms = {} THEN 0
    ELSE LET m == CHOOSE x \in ms : TRUE IN
         SubjectOf(m).credits + CreditsSum(ms \ {m})

RECURSIVE CreditPointsSum(_)
CreditPointsSum(ms) ==
    IF ms = {} THEN 0
    ELSE LET m == CHOOSE x \in ms : TRUE IN
         SubjectOf(m).credits * BandOf(m.marks * 100, m.max_marks)[2]
            + CreditPointsSum(ms \ {m})

\* c hundredths is total_credit_points / total_credits rounded to two decimals:
\* no further than half a hundredth from the quotient.
RoundedQuotient(c, points, credits) ==
    /\ 2 * (c * credits - 100 * points) <= credits
    /\ 2 * (100 * points - c * credits) <= credits

\* C5: for a student with at least one Mark (every max_marks > 0),
\* compute_student_report returns a summary whose total_credits is the sum of
\* the credits of the graded subjects, whose total_credit_gp is the sum of
\* credits x grade_point(percent), and whose cgpa is their quotient rounded to
\* 2 decimals when total_credits > 0 and 0.0 otherwise.
C5_SummaryTotals ==
    (/\ last.op = "compute_student_report"
     /\ GradedMarks(last.args[1]) # {}
     /\ \A m \in GradedMarks(last.args[1]) : m.max_marks > 0)
        => LET ms == GradedMarks(last.args[1])
               credits == CreditsSum(ms)
               points == CreditPointsSum(ms)
           IN /\ last.outcome # None
              /\ last.outcome.summary.total_credits = credits
              /\ last.outcome.summary.total_credit_gp = points
              /\ IF credits > 0
                 THEN RoundedQuotient(last.outcome.summary.cgpa, points, credits)
                 ELSE last.outcome.summary.cgpa = 0

\* C5 witness: the report of a student with marks 95/100 in a 4-credit subject
\* and 65/100 in a 3-credit subject: total_credits 7, total_credit_gp 61,
\* cgpa 8.71.
C5_WorkedExample ==
    /\ last.op = "compute_student_report"
    /\ last.outcome # None
    /\ \E r1 \in last.outcome.df, r2 \in last.outcome.df :
          /\ r1.marks = 95 /\ r1.max_marks = 100 /\ r1.credits = 4
          /\ r2.marks = 65 /\ r2.max_marks = 100 /\ r2.credits = 3
    /\ last.outcome.summary.total_credits = 7
    /\ last.outcome.summary.total_credit_gp = 61
    /\ last.outcome.summary.cgpa = 871

\* The student ids in the store, and those of them without a mark.
StoredIds == {s.student_id : s \in students}
IdsWithoutMarks == {i \in StoredIds : GradedMarks(i) = {}}

\* C6 (as claimed): the result of compute_student_report for a student_id that
\* is not in the store can be told apart from its result for a stored student
\* without marks.
C6_NoDataIsNotNotFound ==
    (last.op = "compute_student_report" /\ last.args[1] \notin StoredIds)
        => \A i \in IdsWithoutMarks : compute_student_report(i) # last.outcome

\* The rolls of the students that have at least one Mark.
RollsWithMarks == {s.roll : s \in {x \in students : GradedMarks(x.student_id) # {}}}
RollIndex(roll) == CHOOSE i \in 1..Len(RollList) : RollList[i] = roll

\* C8 (as claimed): the class CGPA table holds exactly one summary for every
\* student with at least one Mark and none for the others, in descending cgpa,
\* students of equal cgpa in ascending roll.
C8_RankedByCgpaThenRoll ==
    last.op = "class_cgpa" =>
        LET shown == last.outcome IN
        /\ Len(shown) = Cardinality(RollsWithMarks)
        /\ {shown[i].roll : i \in 1..Len(shown)} = RollsWithMarks
        /\ \A i \in 1..Len(shown), j \in 1..Len(shown) :
              i < j => \/ shown[i].cgpa > shown[j].cgpa
                       \/ /\ shown[i].cgpa = shown[j].cgpa
                          /\ RollIndex(shown[i].roll) < RollIndex(shown[j].roll)
====
